---- MODULE Spec2Model ----
(***************************************************************************)
(* Model of the tidaloader download queue: the zustand store               *)
(* (stores/downloadStore.js, kept in src/unnamed/part_001) and the         *)
(* DownloadManager singleton (utils/downloadManager.js, kept in            *)
(* src/frontend/src/hooks/useTheme.js lines 68-294).                       *)
(*                                                                         *)
(* JavaScript runs one task at a time, so every store mutator and every    *)
(* stretch of an async function between two awaits is one atomic action.   *)
(* The write-only timestamps startedAt/completedAt/failedAt are never read *)
(* by the store or the manager and are left out of the item records;       *)
(* addedAt is kept because it is the clock value the id is derived from.   *)
(***************************************************************************)
EXTENDS Integers, Sequences, FiniteSets, TLC

\* ------------------------------------------------------------------ bounds
MaxItems == 2        \* items held by the four collections together
MaxLoops == 2        \* start() invocations whose control loop is still alive
MaxClock == 1        \* largest value of Date.now() the model distinguishes
MaxBody == 1         \* bytes a response body delivers at most
MaxLongBody == 2
MaxChars == 3     \* the same in the specification of restarted managers

\* ------------------------------------------------------- program constants
DefaultMaxConcurrent == 3

\* ------------------------------------------------------------ input sets
TidalIds == {1, 2}
\* Strings that reach sanitizeFilename are sequences of characters.
Titles == {<<"A">>, <<"B">>}
Artists == {<<"X", ":">>}
TotalSizes == {0, 1}      \* content-length values (0: header absent)
ChunkSizes == {1}         \* value.length of one reader.read() result
Descriptors == [tidal_id : TidalIds, title : Titles, artist : Artists]
BatchesOf(D) == {<<>>} \cup {<<d>> : d \in D} \cup {<<d, e>> : d \in D, e \in D}
Batches == BatchesOf(Descriptors)
\* The batches the pages hand to the running manager: one title per track.
PlainBatches == BatchesOf({d \in Descriptors : d.title = <<"A">>})
ItemIds == TidalIds \X (0..MaxClock)
NoValue == "undefined"
\* A filename is a sequence of characters; an item without one has none.
NoFilename == <<>>
NoId == <<0, 0>>

VARIABLES
    queue, downloading, completed, failed,   \* the store's four collections
    maxConcurrent,                           \* the store's setting
    now,                                     \* Date.now()
    isProcessing,                            \* DownloadManager.isProcessing
    activeDownloads,                         \* Map: track.id -> controller (named by its loop)
    loops,                                   \* the start() invocations and where each awaits
    lastOp,                                  \* the last observed operation applied
    observed,                                \* the operations lastOp records (fixed)
    DOWNLOAD_MODE,                           \* the build's setting: "client" or "server"
    syncing,                                 \* the server queue sync is running
    unsanitized,                             \* the argument of sanitizeFilename
    sanitized                                \* what sanitizeFilename returned for it

storeVars == <<queue, downloading, completed, failed, maxConcurrent>>
managerVars == <<isProcessing, activeDownloads, loops>>
modeVars == <<DOWNLOAD_MODE, syncing>>
nameVars == <<unsanitized, sanitized>>
vars == <<queue, downloading, completed, failed, maxConcurrent, now,
          isProcessing, activeDownloads, loops, lastOp, observed, DOWNLOAD_MODE, syncing,
          unsanitized, sanitized>>

\* The store state the zustand updaters receive.
State == [queue |-> queue, downloading |-> downloading,
          completed |-> completed, failed |-> failed]

SetState(st) ==
    /\ queue' = st.queue
    /\ downloading' = st.downloading
    /\ completed' = st.completed
    /\ failed' = st.failed

\* ---------------------------------------------------------- array helpers
RECURSIVE MapSeq(_, _)
MapSeq(F(_), s) == IF s = <<>> THEN <<>> ELSE <<F(Head(s))>> \o MapSeq(F, Tail(s))

Range(s) == {s[i] : i \in 1..Len(s)}

HasId(s, trackId) == \E i \in 1..Len(s) : s[i].id = trackId

\* Array.prototype.find: the first element with that id.
Find(s, trackId) ==
    s[CHOOSE i \in 1..Len(s) :
        /\ s[i].id = trackId
        /\ \A j \in 1..(i - 1) : s[j].id # trackId]

\* Array.prototype.filter((t) => t.id !== trackId)
WithoutId(s, trackId) == SelectSeq(s, LAMBDA t : t.id # trackId)

\* -------------------------------------------------------- store updaters
existingIdsWithoutCompleted(st) ==
    {t.tidal_id : t \in Range(st.queue)}
        \cup {t.tidal_id : t \in Range(st.downloading)}


existingIdsWithFailed(st) ==
    {t.tidal_id : t \in Range(st.queue)}
        \cup {t.tidal_id : t \in Range(st.downloading)}
        \cup {t.tidal_id : t \in Range(st.completed)}
        \cup {t.tidal_id : t \in Range(st.failed)}

existingIds(st) ==
    {t.tidal_id : t \in Range(st.queue)}
        \cup {t.tidal_id : t \in Range(st.downloading)}
        \cup {t.tidal_id : t \in Range(st.completed)}

NewItem(track, t) ==
    [id |-> <<track.tidal_id, t>>, tidal_id |-> track.tidal_id,
     title |-> track.title, artist |-> track.artist,
     status |-> "queued", progress |-> 0, addedAt |-> t,
     error |-> NoValue, filename |-> NoFilename]

newTracks(st, tracks, t) ==
    MapSeq(LAMBDA track : NewItem(track, t),
           SelectSeq(tracks, LAMBDA track : track.tidal_id \notin existingIds(st)))


addToQueueAtHead(st, tracks, t) ==
    IF Len(newTracks(st, tracks, t)) = 0
    THEN st
    ELSE [st EXCEPT !.queue = newTracks(st, tracks, t) \o st.queue]

addToQueue(st, tracks, t) ==
    IF Len(newTracks(st, tracks, t)) = 0
    THEN st
    ELSE [st EXCEPT !.queue = st.queue \o newTracks(st, tracks, t)]

\* The two numbers addToQueue logs: tracks added, duplicates skipped.
addedCount(st, tracks, t) == Len(newTracks(st, tracks, t))
duplicateCount(st, tracks, t) == Len(tracks) - Len(newTracks(st, tracks, t))

removeFromQueueEverywhere(st, trackId) ==
    [st EXCEPT !.queue = WithoutId(st.queue, trackId),
               !.completed = WithoutId(st.completed, trackId),
               !.failed = WithoutId(st.failed, trackId)]

removeFromQueueAndDownloading(st, trackId) ==
    [st EXCEPT !.queue = WithoutId(st.queue, trackId),
               !.downloading = WithoutId(st.downloading, trackId)]

removeFromQueue(st, trackId) ==
    [st EXCEPT !.queue = WithoutId(st.queue, trackId)]


startDownloadToCompleted(st, trackId) ==
    IF ~HasId(st.queue, trackId)
    THEN st
    ELSE [st EXCEPT
            !.queue = WithoutId(st.queue, trackId),
            !.completed = Append(st.completed,
                [Find(st.queue, trackId) EXCEPT !.status = "completed"])]

startDownload(st, trackId) ==
    IF ~HasId(st.queue, trackId)
    THEN st
    ELSE [st EXCEPT
            !.queue = WithoutId(st.queue, trackId),
            !.downloading = Append(st.downloading,
                [Find(st.queue, trackId) EXCEPT !.status = "downloading"])]

updateProgress(st, trackId, progress) ==
    [st EXCEPT !.downloading =
        MapSeq(LAMBDA t : IF t.id = trackId THEN [t EXCEPT !.progress = progress] ELSE t,
               st.downloading)]

completeDownloadUnguarded(st, trackId, filename) ==
    [st EXCEPT
        !.downloading = WithoutId(st.downloading, trackId),
        !.completed = Append(st.completed,
            [(IF HasId(st.downloading, trackId)
              THEN Find(st.downloading, trackId)
              ELSE NewItem([tidal_id |-> 0, title |-> <<>>, artist |-> <<>>], 0)) EXCEPT
                !.status = "completed", !.progress = 100, !.filename = filename])]

completeDownload(st, trackId, filename) ==
    IF ~HasId(st.downloading, trackId)
    THEN st
    ELSE [st EXCEPT
            !.downloading = WithoutId(st.downloading, trackId),
            !.completed = Append(st.completed,
                [Find(st.downloading, trackId) EXCEPT
                    !.status = "completed", !.progress = 100, !.filename = filename])]

failDownloadDropsReason(st, trackId, error) ==
    IF ~HasId(st.downloading, trackId)
    THEN st
    ELSE [st EXCEPT
            !.downloading = WithoutId(st.downloading, trackId),
            !.failed = Append(st.failed,
                [Find(st.downloading, trackId) EXCEPT !.status = "failed"])]

failDownload(st, trackId, error) ==
    IF ~HasId(st.downloading, trackId)
    THEN st
    ELSE [st EXCEPT
            !.downloading = WithoutId(st.downloading, trackId),
            !.failed = Append(st.failed,
                [Find(st.downloading, trackId) EXCEPT
                    !.status = "failed", !.error = error])]


retryFailedKeepsFields(st, trackId) ==
    IF ~HasId(st.failed, trackId)
    THEN st
    ELSE [st EXCEPT
            !.failed = WithoutId(st.failed, trackId),
            !.queue = Append(st.queue,
                [Find(st.failed, trackId) EXCEPT !.status = "queued"])]

retryFailedToHead(st, trackId) ==
    IF ~HasId(st.failed, trackId)
    THEN st
    ELSE [st EXCEPT
            !.failed = WithoutId(st.failed, trackId),
            !.queue = <<[Find(st.failed, trackId) EXCEPT
                    !.status = "queued", !.error = NoValue, !.progress = 0]>> \o st.queue]

retryFailed(st, trackId) ==
    IF ~HasId(st.failed, trackId)
    THEN st
    ELSE [st EXCEPT
            !.failed = WithoutId(st.failed, trackId),
            !.queue = Append(st.queue,
                [Find(st.failed, trackId) EXCEPT
                    !.status = "queued", !.error = NoValue, !.progress = 0])]


clearCompletedAndFailed(st) == [st EXCEPT !.completed = <<>>, !.failed = <<>>]

clearCompleted(st) == [st EXCEPT !.completed = <<>>]

clearFailed(st) == [st EXCEPT !.failed = <<>>]


\* getStats(): the four lengths and their sum.
getStatsWithoutFailed(st) ==
    [queued |-> Len(st.queue), downloading |-> Len(st.downloading),
     completed |-> Len(st.completed), failed |-> Len(st.failed),
     total |-> Len(st.queue) + Len(st.downloading) + Len(st.completed)]

getStats(st) ==
    [queued |-> Len(st.queue), downloading |-> Len(st.downloading),
     completed |-> Len(st.completed), failed |-> Len(st.failed),
     total |-> Len(st.queue) + Len(st.downloading)
                + Len(st.completed) + Len(st.failed)]

TotalItems(st) ==
    Len(st.queue) + Len(st.downloading) + Len(st.completed) + Len(st.failed)

\* History: the operation a step applied, kept when it is an observed one.
OpBy(name, l, added, skipped) ==
    IF name \in observed
    THEN [op |-> name, loop |-> l, added |-> added, skipped |-> skipped]
    ELSE [op |-> "other", loop |-> 0, added |-> 0, skipped |-> 0]

\* An operation called by the page (loop 0) ...
Op(name, trackId, added, skipped) == OpBy(name, 0, added, skipped)

\* ... and one applied by the control loop l.
LoopOp(name, l) == OpBy(name, l, 0, 0)

\* ------------------------------------------------------- manager helpers
NoTrack == [id |-> NoId, tidal_id |-> 0, title |-> <<>>, artist |-> <<>>]
IdleLoop == [pc |-> "none", track |-> NoTrack, received |-> 0, total |-> 0,
             aborted |-> FALSE]
Loops == 1..MaxLoops

\* A loop suspended in a plain await keeps no live locals.
Parked(pc) == [IdleLoop EXCEPT !.pc = pc]

\* The track fields downloadTrackClientSide reads from queue[0].
TrackOf(item) == [id |-> item.id, tidal_id |-> item.tidal_id,
                  title |-> item.title, artist |-> item.artist]

InvalidChars == {"<", ">", ":", "\"", "/", "\\", "|", "?", "*"}
Whitespace == {" ", "\t"}

RECURSIVE TrimStart(_)
TrimStart(s) ==
    IF s # <<>> /\ Head(s) \in Whitespace THEN TrimStart(Tail(s)) ELSE s

RECURSIVE TrimEnd(_)
TrimEnd(s) ==
    IF s # <<>> /\ s[Len(s)] \in Whitespace
    THEN TrimEnd(SubSeq(s, 1, Len(s) - 1))
    ELSE s


sanitizeFilenameUntrimmed(filename) ==
    MapSeq(LAMBDA c : IF c \in InvalidChars THEN "_" ELSE c, filename)

\* filename.replace(/[<>:"/\\|?*]/g, "_").trim()
sanitizeFilename(filename) ==
    TrimEnd(TrimStart(MapSeq(LAMBDA c : IF c \in InvalidChars THEN "_" ELSE c, filename)))

\* `${track.artist} - ${track.title}.flac`
FilenameOf(track) ==
    sanitizeFilename(track.artist \o <<" ", "-", " ">> \o track.title
                        \o <<".", "f", "l", "a", "c">>)

\* Math.round((receivedBytes / totalBytes) * 100), totalBytes > 0
ProgressOf(receivedBytes, totalBytes) ==
    (200 * receivedBytes + totalBytes) \div (2 * totalBytes)

\* Map.prototype.set / delete on activeDownloads (a function id -> loop).
MapSet(m, k, v) == [x \in (DOMAIN m) \cup {k} |-> IF x = k THEN v ELSE m[x]]
MapDelete(m, k) == [x \in (DOMAIN m) \ {k} |-> m[x]]
EmptyMap == [x \in {} |-> 0]
Controllers(m) == {m[k] : k \in DOMAIN m}

ActiveLoops == {l \in Loops : loops[l].pc # "none"}
InTransfer(l) == loops[l].pc \in {"resolving", "fetching", "reading"}

\* Failure messages of the awaited network calls.
FetchErrors == {"HTTP 404: Not Found"}
ReadErrors == {"network error"}
NoStreamUrl == "No stream URL returned"
CancelledMessage == "Download cancelled"

\* ------------------------------------------------------------ store actions
\* t is what Date.now() returns during the call: the clock may have moved on
\* since the previous call, or not.
Enqueue(tracks, t) ==
    /\ SetState(addToQueue(State, tracks, t))
    /\ now' = t
    /\ lastOp' = Op("addToQueue", NoId,
                    addedCount(State, tracks, t),
                    duplicateCount(State, tracks, t))
    /\ UNCHANGED <<maxConcurrent, managerVars, observed, modeVars, nameVars>>

AddToQueueOf(tracks, t) ==
    /\ TotalItems(addToQueue(State, tracks, t)) <= MaxItems
    /\ Enqueue(tracks, t)

AddToQueueFrom(B) == \E tracks \in B, t \in now..MaxClock : AddToQueueOf(tracks, t)

AddToQueue == AddToQueueFrom(Batches)


\* Loosely typed callers: a descriptor may come without tidal_id, which then
\* reads as undefined.
Undefined == 0
LooseBatches ==
    BatchesOf({d \in Descriptors : d.title = <<"A">>}
                \cup {[tidal_id |-> Undefined, title |-> <<"A">>, artist |-> <<"X", ":">>]})

AddLoose == AddToQueueFrom(LooseBatches)

\* getStats() is read by the page; the record it returns is kept in lastOp.
GetStats ==
    /\ lastOp' = IF "getStats" \in observed
                 THEN [op |-> "getStats", loop |-> 0, added |-> 0, skipped |-> 0,
                       stats |-> getStats(State)]
                 ELSE OpBy("getStats", 0, 0, 0)
    /\ UNCHANGED <<storeVars, now, managerVars, observed, modeVars, nameVars>>

AddPlain == AddToQueueFrom(PlainBatches)

\* lastOp.skipped: the number of queued items the call took away.
RemoveFromQueueOf(trackId) ==
    /\ SetState(removeFromQueue(State, trackId))
    /\ lastOp' = Op("removeFromQueue", trackId, 0,
                    Len(queue) - Len(WithoutId(queue, trackId)))
    /\ UNCHANGED <<maxConcurrent, now, managerVars, observed, modeVars, nameVars>>

RemoveFromQueue == \E trackId \in ItemIds : RemoveFromQueueOf(trackId)

\* lastOp.added: 1 when the id was found in failed, 0 when the call was a no-op.
RetryFailedOf(trackId) ==
    /\ SetState(retryFailed(State, trackId))
    /\ lastOp' = Op("retryFailed", trackId, IF HasId(failed, trackId) THEN 1 ELSE 0, 0)
    /\ UNCHANGED <<maxConcurrent, now, managerVars, observed, modeVars, nameVars>>

RetryFailed == \E trackId \in ItemIds : RetryFailedOf(trackId)

ClearCompleted ==
    /\ SetState(clearCompleted(State))
    /\ lastOp' = Op("clearCompleted", NoId, 0, Len(completed))
    /\ UNCHANGED <<maxConcurrent, now, managerVars, observed, modeVars, nameVars>>

ClearFailed ==
    /\ SetState(clearFailed(State))
    /\ lastOp' = Op("clearFailed", NoId, 0, Len(failed))
    /\ UNCHANGED <<maxConcurrent, now, managerVars, observed, modeVars, nameVars>>

\* The store's remaining mutators, called directly on the store object.
Progresses == {50, 100}
StartDownload ==
    \E trackId \in ItemIds :
        /\ SetState(startDownload(State, trackId))
        /\ lastOp' = Op("startDownload", trackId, 0, 0)
        /\ UNCHANGED <<maxConcurrent, now, managerVars, observed, modeVars, nameVars>>

UpdateProgressOf(trackId, progress) ==
    /\ SetState(updateProgress(State, trackId, progress))
    /\ lastOp' = Op("updateProgress", trackId, 0, 0)
    /\ UNCHANGED <<maxConcurrent, now, managerVars, observed, modeVars, nameVars>>

UpdateProgress ==
    \E trackId \in ItemIds, progress \in Progresses : UpdateProgressOf(trackId, progress)

CompleteDownload ==
    \E trackId \in ItemIds :
        /\ SetState(completeDownload(State, trackId, <<"f">>))
        /\ lastOp' = Op("completeDownload", trackId, 0, 0)
        /\ UNCHANGED <<maxConcurrent, now, managerVars, observed, modeVars, nameVars>>

FailDownload ==
    \E trackId \in ItemIds, error \in FetchErrors :
        /\ SetState(failDownload(State, trackId, error))
        /\ lastOp' = Op("failDownload", trackId, 0, 0)
        /\ UNCHANGED <<maxConcurrent, now, managerVars, observed, modeVars, nameVars>>

\* ---------------------------------------------------------- manager steps
\* downloadTrackClientSide up to its first await: startDownload, then the
\* controller is registered under track.id.
DispatchNewest(l, item) ==
    /\ SetState(startDownload(State, queue[Len(queue)].id))
    /\ activeDownloads' = MapSet(activeDownloads, queue[Len(queue)].id, l)
    /\ loops' = [loops EXCEPT ![l] =
                    [pc |-> "resolving", track |-> TrackOf(queue[Len(queue)]),
                     received |-> 0, total |-> 0, aborted |-> FALSE]]
    /\ lastOp' = LoopOp("dispatch", l)


DispatchUnawaited(l, item) ==
    /\ SetState(startDownload(State, item.id))
    /\ activeDownloads' = MapSet(activeDownloads, item.id, l)
    /\ loops' = [loops EXCEPT ![l] = Parked("sleep500")]
    /\ lastOp' = LoopOp("dispatch", l)

Dispatch(l, item) ==
    /\ SetState(startDownload(State, item.id))
    /\ activeDownloads' = MapSet(activeDownloads, item.id, l)
    /\ loops' = [loops EXCEPT ![l] =
                    [pc |-> "resolving", track |-> TrackOf(item),
                     received |-> 0, total |-> 0, aborted |-> FALSE]]
    /\ lastOp' = LoopOp("dispatch", l)


\* downloadTrackServerSide up to its first await: startDownload, then the
\* request to ${API_BASE}/download/track. The module neither imports nor
\* declares API_BASE: where the build does not supply it as a global, the
\* template literal throws a ReferenceError inside the try and the catch
\* block records the failure in the same task. No controller is registered.
ApiBaseUndefined == "API_BASE is not defined"

downloadTrackServerSide(l, item) ==
    /\ \/ /\ SetState(startDownload(State, item.id))
          /\ loops' = [loops EXCEPT ![l] =
                          [pc |-> "submitting", track |-> TrackOf(item),
                           received |-> 0, total |-> 0, aborted |-> FALSE]]
          /\ lastOp' = LoopOp("dispatch", l)
       \/ /\ SetState(failDownload(startDownload(State, item.id), item.id,
                                   ApiBaseUndefined))
          /\ loops' = [loops EXCEPT ![l] = Parked("rateLimit")]
          /\ lastOp' = LoopOp("failDownload", l)
    /\ UNCHANGED activeDownloads

\* downloadTrack(track): the strategy the build's DOWNLOAD_MODE selects.
downloadTrackEitherWay(l, item) ==
    \/ downloadTrackServerSide(l, item)
    \/ Dispatch(l, item)

downloadTrack(l, item) ==
    IF DOWNLOAD_MODE = "server"
    THEN downloadTrackServerSide(l, item)
    ELSE Dispatch(l, item)

\* "Check if we can start more downloads"
CanStartMoreOffByOne(st, limit) == Len(st.downloading) <= limit /\ Len(st.queue) > 0
CanStartMore(st, limit) == Len(st.downloading) < limit /\ Len(st.queue) > 0

\* One pass of the while body of start(), up to the await it ends in.
Iterate(l) ==
    IF CanStartMore(State, maxConcurrent)
    THEN downloadTrack(l, queue[1])
    ELSE /\ loops' = [loops EXCEPT ![l] =
                Parked(IF Len(downloading) = 0 /\ Len(queue) = 0
                       THEN "sleep1000" ELSE "sleep500")]
         /\ lastOp' = Op("sleep", NoId, 0, 0)
         /\ UNCHANGED <<queue, downloading, completed, failed, activeDownloads>>

ResumeUnchecked(l) == Iterate(l)

\* The while test of start() after an await has resumed.
Resume(l) ==
    IF isProcessing
    THEN Iterate(l)
    ELSE /\ loops' = [loops EXCEPT ![l] = IdleLoop]
         /\ lastOp' = Op("loopExit", NoId, 0, 0)
         /\ UNCHANGED <<queue, downloading, completed, failed, activeDownloads>>


\* The guard at the head of start().
AlreadyRunningUnchecked(flag) == FALSE
AlreadyRunning(flag) == flag

\* start(): returns at once when already running, otherwise raises the flag
\* and runs the first pass of the loop in the caller's task.
Start ==
    IF AlreadyRunning(isProcessing)
    THEN /\ lastOp' = Op("startIgnored", NoId, 0, 0)
         /\ UNCHANGED <<storeVars, now, managerVars, observed, modeVars, nameVars>>
    ELSE \E l \in Loops :
            /\ loops[l].pc = "none"
            /\ \A k \in Loops : k < l => loops[k].pc # "none"
            /\ isProcessing' = TRUE
            /\ Iterate(l)
            /\ UNCHANGED <<maxConcurrent, now, observed, modeVars, nameVars>>

\* stop(): lowers the flag, aborts and forgets every registered controller.
Manager == [isProcessing |-> isProcessing, activeDownloads |-> activeDownloads,
            loops |-> loops]


stopToggles(m) ==
    [isProcessing |-> ~m.isProcessing,
     activeDownloads |-> EmptyMap,
     loops |-> [l \in Loops |->
                IF l \in Controllers(m.activeDownloads)
                THEN [m.loops[l] EXCEPT !.aborted = TRUE]
                ELSE m.loops[l]]]

stop(m) ==
    [isProcessing |-> FALSE,
     activeDownloads |-> EmptyMap,
     loops |-> [l \in Loops |->
                IF l \in Controllers(m.activeDownloads)
                THEN [m.loops[l] EXCEPT !.aborted = TRUE]
                ELSE m.loops[l]]]

Stop ==
    /\ isProcessing' = stop(Manager).isProcessing
    /\ loops' = stop(Manager).loops
    /\ activeDownloads' = stop(Manager).activeDownloads
    /\ lastOp' = Op("stop", NoId, 0, 0)
    /\ UNCHANGED <<storeVars, now, observed, modeVars, nameVars>>

\* The catch and finally blocks, then the await of sleep(1000).
TransferFailsRethrows(l, error) ==
    /\ activeDownloads' = MapDelete(activeDownloads, loops[l].track.id)
    /\ loops' = [loops EXCEPT ![l] = IdleLoop]
    /\ lastOp' = LoopOp("failDownload", l)
    /\ UNCHANGED <<storeVars, now, isProcessing, observed, modeVars, nameVars>>

TransferFails(l, error) ==
    /\ SetState(failDownload(State, loops[l].track.id, error))
    /\ activeDownloads' = MapDelete(activeDownloads, loops[l].track.id)
    /\ loops' = [loops EXCEPT ![l] = Parked("rateLimit")]
    /\ lastOp' = LoopOp("failDownload", l)
    /\ UNCHANGED <<maxConcurrent, now, isProcessing, observed, modeVars, nameVars>>

\* await api.get(`/download/stream/${track.tidal_id}`) settles.
ResolveStream(l) ==
    /\ loops[l].pc = "resolving"
    /\ \/ TransferFails(l, NoStreamUrl)
       \/ /\ loops' = [loops EXCEPT ![l].pc = "fetching"]
          /\ lastOp' = Op("streamUrl", loops[l].track.id, 0, 0)
          /\ UNCHANGED <<storeVars, now, isProcessing, activeDownloads, observed, modeVars, nameVars>>

\* await fetch(stream_url, {signal}) settles.
FetchSettlesOf(l, sizes) ==
    /\ loops[l].pc = "fetching"
    /\ IF loops[l].aborted
       THEN TransferFails(l, CancelledMessage)
       ELSE \/ \E e \in FetchErrors : TransferFails(l, e)
            \/ \E totalBytes \in sizes :
                /\ loops' = [loops EXCEPT ![l].pc = "reading", ![l].total = totalBytes]
                /\ lastOp' = Op("response", loops[l].track.id, 0, 0)
                /\ UNCHANGED <<storeVars, now, isProcessing, activeDownloads, observed, modeVars, nameVars>>

\* await reader.read() settles: a chunk, the end of the body, or an error.
ReadSettlesOf(l, bodyLength) ==
    /\ loops[l].pc = "reading"
    /\ IF loops[l].aborted
       THEN TransferFails(l, CancelledMessage)
       ELSE \/ \E n \in ChunkSizes :
                /\ loops[l].received + n <= bodyLength
                /\ loops' = [loops EXCEPT ![l].received = @ + n]
                /\ IF loops[l].total > 0
                   THEN SetState(updateProgress(State, loops[l].track.id,
                            ProgressOf(loops[l].received + n, loops[l].total)))
                   ELSE UNCHANGED <<queue, downloading, completed, failed>>
                /\ lastOp' = Op("chunk", loops[l].track.id, 0, 0)
                /\ UNCHANGED <<maxConcurrent, now, isProcessing, activeDownloads, observed, modeVars, nameVars>>
            \/ /\ SetState(completeDownload(State, loops[l].track.id,
                                            FilenameOf(loops[l].track)))
               /\ activeDownloads' = MapDelete(activeDownloads, loops[l].track.id)
               /\ loops' = [loops EXCEPT ![l] = Parked("rateLimit")]
               /\ lastOp' = Op("completeDownload", loops[l].track.id, 0, 0)
               /\ UNCHANGED <<maxConcurrent, now, isProcessing, observed, modeVars, nameVars>>
            \/ \E e \in ReadErrors : TransferFails(l, e)

\* await this.sleep(...) resolves: the trailing delay of a transfer or the
\* idle wait of the loop; the loop goes back to its while test.
SleepEnds(l) ==
    /\ loops[l].pc \in {"rateLimit", "sleep500", "sleep1000"}
    /\ Resume(l)
    /\ UNCHANGED <<maxConcurrent, now, isProcessing, observed, modeVars, nameVars>>


\* The server-side strategy after its awaits: the POST settles, then
\* response.json() settles.
SubmitErrors == {"Failed to fetch", "HTTP 500"}
ParseErrors == {"Unexpected end of JSON input"}
ServerFilenames == {<<"f">>}    \* result.filename
InSubmission(l) == loops[l].pc \in {"submitting", "parsing"}

ServerFails(l, error) ==
    /\ SetState(failDownload(State, loops[l].track.id, error))
    /\ loops' = [loops EXCEPT ![l] = Parked("rateLimit")]
    /\ lastOp' = LoopOp("failDownload", l)
    /\ UNCHANGED <<maxConcurrent, now, isProcessing, activeDownloads, observed, modeVars, nameVars>>

SubmitSettles(l) ==
    /\ loops[l].pc = "submitting"
    /\ \/ \E e \in SubmitErrors : ServerFails(l, e)
       \/ /\ loops' = [loops EXCEPT ![l].pc = "parsing"]
          /\ lastOp' = Op("response", loops[l].track.id, 0, 0)
          /\ UNCHANGED <<storeVars, now, isProcessing, activeDownloads, observed, modeVars, nameVars>>

ParseSettles(l) ==
    /\ loops[l].pc = "parsing"
    /\ \/ \E e \in ParseErrors : ServerFails(l, e)
       \/ \E filename \in ServerFilenames :
            /\ SetState(completeDownload(State, loops[l].track.id, filename))
            /\ loops' = [loops EXCEPT ![l] = Parked("rateLimit")]
            /\ lastOp' = LoopOp("completeDownload", l)
            /\ UNCHANGED <<maxConcurrent, now, isProcessing, activeDownloads, observed, modeVars, nameVars>>

FetchSettles(l) == FetchSettlesOf(l, TotalSizes)

ReadSettles(l) == ReadSettlesOf(l, MaxBody)

LoopStep == \E l \in Loops : ResolveStream(l) \/ FetchSettles(l) \/ ReadSettles(l) \/ SleepEnds(l)

\* The same steps with bodies of several chunks.
LongSizes == {0, MaxLongBody}
LongLoopStep ==
    \E l \in Loops : \/ ResolveStream(l)
                     \/ FetchSettlesOf(l, LongSizes)
                     \/ ReadSettlesOf(l, MaxLongBody)
                     \/ SleepEnds(l)

StoreOps == {"addToQueue", "removeFromQueue", "startDownload", "updateProgress",
             "completeDownload", "failDownload", "retryFailed",
             "clearCompleted", "clearFailed"}
ManagerOps == {"startIgnored", "stop", "retryFailed", "failDownload", "dispatch",
               "removeFromQueue"}
\* The tightest setting: every live control loop competes for the one slot.
TightSettings == {1}

InitState(settings, ops, modes) ==
    /\ queue = <<>>
    /\ downloading = <<>>
    /\ completed = <<>>
    /\ failed = <<>>
    /\ maxConcurrent \in settings
    /\ now = 0
    /\ isProcessing = FALSE
    /\ activeDownloads = EmptyMap
    /\ loops = [l \in Loops |-> IdleLoop]
    /\ observed = ops
    /\ lastOp = Op("init", NoId, 0, 0)
    /\ DOWNLOAD_MODE \in modes
    /\ syncing = FALSE

InitIn(settings, ops, modes) ==
    /\ InitState(settings, ops, modes)
    /\ unsanitized = <<>>
    /\ sanitized = <<>>

\* The build as committed: const DOWNLOAD_MODE = "client".
InitWith(settings, ops) == InitIn(settings, ops, {"client"})

\* The manager driving the store, with the calls the queue page makes.
Init == InitWith(TightSettings, ManagerOps)

Next ==
    \/ AddPlain
    \/ RemoveFromQueue
    \/ RetryFailed
    \/ ClearCompleted
    \/ ClearFailed
    \/ Start
    \/ Stop
    \/ LoopStep

Spec == Init /\ [][Next]_vars

\* The store on its own: every mutator called in any order with any argument.
InitStore == InitWith({DefaultMaxConcurrent}, StoreOps)

NextStore ==
    \/ AddToQueue
    \/ RemoveFromQueue
    \/ StartDownload
    \/ UpdateProgress
    \/ CompleteDownload
    \/ FailDownload
    \/ RetryFailed
    \/ ClearCompleted
    \/ ClearFailed

SpecStore == InitStore /\ [][NextStore]_vars

\* The scenario of five distinct tracks enqueued at once on a fresh store set
\* to two slots, then start(), with no other call from the page.
FiveTracks == [i \in 1..5 |-> [tidal_id |-> i, title |-> <<"A">>, artist |-> <<"X", ":">>]]
TwoSlots == {2}

NeverStarted ==
    /\ ~isProcessing
    /\ activeDownloads = EmptyMap
    /\ \A l \in Loops : loops[l] = IdleLoop

AddFive ==
    /\ TotalItems(State) = 0
    /\ NeverStarted
    /\ Enqueue(FiveTracks, now)

InitFive == InitWith(TwoSlots, {})

NextFive ==
    \/ AddFive
    \/ Start
    \/ LoopStep

SpecFive == InitFive /\ [][NextFive]_vars

\* A manager that is stopped and started again while transfers are winding
\* down, with the default setting: two control loops transfer at the same time.
InitRestart == InitWith({DefaultMaxConcurrent}, {})

NextRestart ==
    \/ AddPlain
    \/ RetryFailed
    \/ Start
    \/ Stop
    \/ LongLoopStep

SpecRestart == InitRestart /\ [][NextRestart]_vars


\* The store fed by loosely typed callers, with the statistics read at any time.
LooseOps == {"addToQueue", "getStats"}
InitLoose == InitWith({DefaultMaxConcurrent}, LooseOps)

NextLoose ==
    \/ AddLoose
    \/ StartDownload
    \/ CompleteDownload
    \/ FailDownload
    \/ RetryFailed
    \/ GetStats

SpecLoose == InitLoose /\ [][NextLoose]_vars


\* The manager started and stopped over a queue that is only added to, under
\* the event loop's guarantee that a pending await is resumed once it has
\* settled: timers fire, requests and reads come back or are aborted.
RunLoop(l) == ResolveStream(l) \/ FetchSettles(l) \/ ReadSettles(l) \/ SleepEnds(l)

StoppingOps == {"stop", "dispatch", "loopExit"}
InitStopping == InitWith(TightSettings, StoppingOps)

NextStopping ==
    \/ AddPlain
    \/ Start
    \/ Stop
    \/ LoopStep

Scheduling == \A l \in Loops : WF_vars(RunLoop(l))

SpecStopping == InitStopping /\ [][NextStopping]_vars /\ Scheduling


\* The manager started and never stopped, over a queue that callers only add
\* to, under the same scheduling guarantee.
RunningOps == {"addToQueue", "dispatch"}
InitRunning == InitWith(TightSettings, RunningOps)

NextRunning ==
    \/ AddToQueue
    \/ Start
    \/ LoopStep

SpecRunning == InitRunning /\ [][NextRunning]_vars /\ Scheduling


\* A build with DOWNLOAD_MODE = "server": the manager submits each track to
\* the backend.
ServerLoopStep == \E l \in Loops : SubmitSettles(l) \/ ParseSettles(l) \/ SleepEnds(l)

ServerOps == {"dispatch", "failDownload", "completeDownload", "stop"}
InitServer == InitIn(TightSettings, ServerOps, {"server"})

NextServer ==
    \/ AddPlain
    \/ RetryFailed
    \/ Start
    \/ Stop
    \/ ServerLoopStep

SpecServer == InitServer /\ [][NextServer]_vars


\* ------------------------------------------------------ server queue sync
\* The store's setServerQueueState and the manager's server queue sync
\* (startServerQueueSync, stopServerQueueSync, fetchServerQueue,
\* syncServerQueueToStore) are called by the pages and the tests, which show
\* their interface: a snapshot {queue, downloading, completed, failed} of
\* server items replaces the four collections.
ServerItem(n, status) ==
    [NewItem([tidal_id |-> n, title |-> <<"A">>, artist |-> <<"X", ":">>], 0)
        EXCEPT !.status = status]

ServerLists(status) == {<<>>} \cup {<<ServerItem(n, status)>> : n \in TidalIds}

Snapshots ==
    {s \in [queue : ServerLists("queued"), downloading : ServerLists("downloading"),
            completed : ServerLists("completed"), failed : ServerLists("failed")] :
        TotalItems(s) <= MaxItems}

setServerQueueStateMerging(st, snapshot) ==
    [queue |-> st.queue \o snapshot.queue,
     downloading |-> st.downloading \o snapshot.downloading,
     completed |-> st.completed \o snapshot.completed,
     failed |-> st.failed \o snapshot.failed]

setServerQueueState(st, snapshot) ==
    [queue |-> snapshot.queue, downloading |-> snapshot.downloading,
     completed |-> snapshot.completed, failed |-> snapshot.failed]

\* What a failed fetchServerQueue does to the store: nothing.
fetchFailedFailsActive(st) ==
    [st EXCEPT !.downloading = <<>>,
               !.failed = st.failed \o MapSeq(LAMBDA t : [t EXCEPT !.status = "failed"],
                                              st.downloading)]

fetchFailed(st) == st

\* lastOp.added: the items of the snapshot; lastOp.skipped: the items the
\* store held before the call.
Replace(name, snapshot) ==
    /\ TotalItems(setServerQueueState(State, snapshot)) <= MaxItems
    /\ SetState(setServerQueueState(State, snapshot))
    /\ lastOp' = Op(name, NoId, TotalItems(snapshot), TotalItems(State))
    /\ UNCHANGED <<maxConcurrent, now, managerVars, observed, modeVars, nameVars>>

SetServerQueueStateOf(snapshot) == Replace("setServerQueueState", snapshot)

SetServerQueueState == \E snapshot \in Snapshots : SetServerQueueStateOf(snapshot)

StartServerQueueSync ==
    /\ DOWNLOAD_MODE = "server"
    /\ ~syncing
    /\ syncing' = TRUE
    /\ lastOp' = Op("startServerQueueSync", NoId, 0, 0)
    /\ UNCHANGED <<storeVars, now, managerVars, observed, DOWNLOAD_MODE, nameVars>>

StopServerQueueSync ==
    /\ syncing
    /\ syncing' = FALSE
    /\ lastOp' = Op("stopServerQueueSync", NoId, 0, 0)
    /\ UNCHANGED <<storeVars, now, managerVars, observed, DOWNLOAD_MODE, nameVars>>

\* One tick of the sync timer whose fetch succeeded.
SyncServerQueueToStoreOf(snapshot) ==
    /\ syncing
    /\ Replace("syncServerQueueToStore", snapshot)

SyncServerQueueToStore == \E snapshot \in Snapshots : SyncServerQueueToStoreOf(snapshot)

\* One tick of the sync timer whose fetch failed.
FetchServerQueueFails ==
    /\ syncing
    /\ SetState(fetchFailed(State))
    /\ lastOp' = Op("fetchFailed", NoId, 0, TotalItems(State))
    /\ UNCHANGED <<maxConcurrent, now, managerVars, observed, modeVars, nameVars>>

\* The store and the sync as the tests drive them.
SyncOps == {"setServerQueueState", "syncServerQueueToStore", "fetchFailed"}
InitSync == InitIn({DefaultMaxConcurrent}, SyncOps, {"server"})

NextSync ==
    \/ AddPlain
    \/ UpdateProgress
    \/ SetServerQueueState
    \/ StartServerQueueSync
    \/ StopServerQueueSync
    \/ SyncServerQueueToStore
    \/ FetchServerQueueFails

SpecSync == InitSync /\ [][NextSync]_vars


\* Either build, with the manager and the server queue sync both in reach of
\* the page.
ModeOps == {"dispatch"}
InitModes == InitIn(TightSettings, ModeOps, {"client", "server"})

NextModes ==
    \/ AddPlain
    \/ Start
    \/ Stop
    \/ LoopStep
    \/ ServerLoopStep
    \/ StartServerQueueSync
    \/ StopServerQueueSync
    \/ SyncServerQueueToStore
    \/ FetchServerQueueFails

SpecModes == InitModes /\ [][NextModes]_vars


\* Responses whose body is longer than the content-length they report, as
\* when the header counts the encoded bytes and the reader yields the
\* decoded ones.
OverrunLoopStep ==
    \E l \in Loops : \/ ResolveStream(l)
                     \/ FetchSettlesOf(l, TotalSizes)
                     \/ ReadSettlesOf(l, MaxLongBody)
                     \/ SleepEnds(l)

InitOverrun == InitWith(TightSettings, {"dispatch"})

NextOverrun ==
    \/ AddPlain
    \/ Start
    \/ Stop
    \/ OverrunLoopStep

SpecOverrun == InitOverrun /\ [][NextOverrun]_vars


\* The manager at work while the page clears the finished lists.
ClearingOps == {"clearCompleted", "clearFailed"}
InitClearing == InitWith(TightSettings, ClearingOps)

NextClearing ==
    \/ AddPlain
    \/ ClearCompleted
    \/ ClearFailed
    \/ Start
    \/ Stop
    \/ LoopStep

SpecClearing == InitClearing /\ [][NextClearing]_vars


\* sanitizeFilename on its own: any string of up to MaxChars characters, and
\* the function applied again to what it returned.
Chars == InvalidChars \cup Whitespace \cup {"a", "_"}
Strings == UNION {[1..n -> Chars] : n \in 0..MaxChars}

SanitizeFilename ==
    /\ sanitized' = sanitizeFilename(unsanitized)
    /\ lastOp' = Op("sanitizeFilename", NoId, 0, 0)
    /\ UNCHANGED <<storeVars, now, managerVars, observed, modeVars, unsanitized>>

SanitizeAgain ==
    /\ lastOp.op = "sanitizeFilename"
    /\ unsanitized # sanitized
    /\ unsanitized' = sanitized
    /\ lastOp' = Op("input", NoId, 0, 0)
    /\ UNCHANGED <<storeVars, now, managerVars, observed, modeVars, sanitized>>

InitSanitize ==
    /\ InitState({DefaultMaxConcurrent}, {"sanitizeFilename"}, {"client"})
    /\ unsanitized \in Strings
    /\ sanitized = <<>>

NextSanitize == SanitizeFilename \/ SanitizeAgain

SpecSanitize == InitSanitize /\ [][NextSanitize]_vars


\* One start() and no stop(), under any setting of maxConcurrent, with the
\* page's other calls.
AnySettings == 1..DefaultMaxConcurrent
InitSingleStart == InitWith(AnySettings, {"dispatch"})

NextSingleStart ==
    \/ AddPlain
    \/ RemoveFromQueue
    \/ RetryFailed
    \/ ClearCompleted
    \/ ClearFailed
    \/ Start
    \/ LoopStep

SpecSingleStart == InitSingleStart /\ [][NextSingleStart]_vars

\* ===================================================================== claims

\* C1: in every reachable state, under any interleaving of the queue page's
\* calls, start(), stop() and transfer events, the number of items in
\* downloading never exceeds maxConcurrent.
C1_DownloadingWithinLimit == Len(downloading) <= maxConcurrent

\* A restarted manager: two control loops are alive, the slots are all taken
\* and an item is waiting in the queue.
C1_Witness ==
    /\ Cardinality(ActiveLoops) >= 2
    /\ isProcessing
    /\ Len(downloading) = maxConcurrent
    /\ Len(queue) > 0

\* C7: stop() is idempotent: a stop() right after a stop() changes neither the
\* manager nor the store, and stop() on a manager that was never started
\* changes neither.
C7_StopIdempotent ==
    [][(Stop /\ (lastOp.op = "stop" \/ NeverStarted))
            => UNCHANGED <<storeVars, managerVars>>]_vars

\* stop() has acted on a transfer in flight: its controller is aborted and
\* forgotten while the item is still in downloading.
C7_Witness ==
    /\ lastOp.op = "stop"
    /\ \E l \in Loops : InTransfer(l) /\ loops[l].aborted
    /\ Len(downloading) > 0

\* C8: start() while isProcessing is true creates no second control loop,
\* dispatches nothing and changes no store collection.
C8_StartWhileRunningIsNoOp ==
    [][(Start /\ isProcessing) => UNCHANGED <<storeVars, managerVars>>]_vars

\* start() was called on a running manager that has an item to dispatch and
\* a free loop slot.
C8_Witness ==
    /\ lastOp.op = "startIgnored"
    /\ isProcessing
    /\ Cardinality(ActiveLoops) = 1
    /\ Len(queue) > 0
\* C2: after any sequence of store operations no catalog id is carried by more
\* than one item of queue, downloading and completed together; in particular
\* retryFailed(id) of a failed item whose catalog id was enqueued again while
\* it sat in failed keeps it so.
Live(st) == st.queue \o st.downloading \o st.completed

CatalogIdsUnique(st) ==
    \A i, j \in 1..Len(Live(st)) :
        Live(st)[i].tidal_id = Live(st)[j].tidal_id => i = j

StateAfter == [queue |-> queue', downloading |-> downloading',
               completed |-> completed', failed |-> failed']

C2_RetryKeepsCatalogIdsUnique ==
    [][\A trackId \in ItemIds :
        (RetryFailedOf(trackId) /\ CatalogIdsUnique(State))
            => CatalogIdsUnique(StateAfter)]_vars

\* C3: for any enqueue batch, also one that names a catalog id twice,
\* addedCount + duplicateCount is the batch length and only the first
\* occurrence of each catalog id is appended: [{1,"A"},{1,"B"}] into an empty
\* store gives addedCount 1, duplicateCount 1 and queue = [item "A"].
RECURSIVE FirstOccurrences(_, _)
FirstOccurrences(tracks, taken) ==
    IF tracks = <<>> THEN <<>>
    ELSE IF Head(tracks).tidal_id \in taken
         THEN FirstOccurrences(Tail(tracks), taken)
         ELSE <<Head(tracks)>>
                \o FirstOccurrences(Tail(tracks), taken \cup {Head(tracks).tidal_id})

CatalogIdsOf(s) == {s[i].tidal_id : i \in 1..Len(s)}
TakenCatalogIds == CatalogIdsOf(queue) \cup CatalogIdsOf(downloading) \cup CatalogIdsOf(completed)

Described(item) == [tidal_id |-> item.tidal_id, title |-> item.title, artist |-> item.artist]

C3_FirstOccurrenceOnly ==
    [][\A tracks \in Batches, t \in 0..MaxClock :
        AddToQueueOf(tracks, t) =>
            /\ lastOp'.added + lastOp'.skipped = Len(tracks)
            /\ lastOp'.added = Len(FirstOccurrences(tracks, TakenCatalogIds))
            /\ Len(queue') = Len(queue) + lastOp'.added
            /\ \A i \in 1..lastOp'.added :
                Described(queue'[Len(queue) + i])
                    = FirstOccurrences(tracks, TakenCatalogIds)[i]]_vars

\* C4: addToQueue of a descriptor whose catalog id belongs to an item in queue,
\* downloading or completed adds no item and leaves the existing items and
\* all four collections as they are; a batch of such duplicates only leaves
\* the whole store unchanged.
C4_DuplicatesLeaveStoreUnchanged ==
    [][lastOp'.op = "addToQueue" =>
        /\ downloading' = downloading
        /\ completed' = completed
        /\ failed' = failed
        /\ Len(queue') = Len(queue) + lastOp'.added
        /\ SubSeq(queue', 1, Len(queue)) = queue
        /\ \A i \in (Len(queue) + 1)..Len(queue') :
            queue'[i].tidal_id \notin TakenCatalogIds
        /\ lastOp'.added = 0 => UNCHANGED storeVars]_vars

\* A batch of two duplicates was rejected: one names a queued track, the
\* other a completed one.
C4_Witness ==
    /\ lastOp.op = "addToQueue"
    /\ lastOp.added = 0
    /\ lastOp.skipped = 2
    /\ Len(queue) = 1
    /\ Len(completed) = 1
    /\ queue[1].tidal_id # completed[1].tidal_id

\* C9: retryFailed(id) for an id present in failed moves exactly one item from
\* failed to queue: failed shrinks by one, queue grows by one, the moved item
\* is queued with progress 0 and no error, its catalog id, title and artist
\* are unchanged, and downloading and completed are unchanged.
C9_RetryMovesExactlyOne ==
    [][\A trackId \in ItemIds :
        (RetryFailedOf(trackId) /\ HasId(failed, trackId)) =>
            /\ Len(failed') = Len(failed) - 1
            /\ Len(queue') = Len(queue) + 1
            /\ queue'[Len(queue')].status = "queued"
            /\ queue'[Len(queue')].progress = 0
            /\ queue'[Len(queue')].error = NoValue
            /\ Described(queue'[Len(queue')]) = Described(Find(failed, trackId))
            /\ downloading' = downloading
            /\ completed' = completed]_vars
\* C10: when the transfer of a downloading item fails with reason r, the item
\* moves from downloading to failed carrying error r; a later retryFailed(id)
\* moves that item to queue with the error cleared.
TransferErrors == {NoStreamUrl, CancelledMessage} \cup FetchErrors \cup ReadErrors

C10_FailureRecordedThenCleared ==
    [][/\ \A l \in Loops, r \in TransferErrors :
            (InTransfer(l) /\ HasId(downloading, loops[l].track.id) /\ TransferFails(l, r)) =>
                /\ ~HasId(downloading', loops[l].track.id)
                /\ Len(failed') = Len(failed) + 1
                /\ failed'[Len(failed')] =
                     [Find(downloading, loops[l].track.id) EXCEPT
                        !.status = "failed", !.error = r]
       /\ \A trackId \in ItemIds :
            (HasId(failed, trackId) /\ Find(failed, trackId).error \in TransferErrors
                /\ RetryFailedOf(trackId)) =>
                /\ ~HasId(failed', trackId)
                /\ queue'[Len(queue')] =
                     [Find(failed, trackId) EXCEPT
                        !.status = "queued", !.error = NoValue, !.progress = 0]]_vars

\* An item whose transfer failed was retried: it is back at the tail of the
\* queue without an error.
C10_Witness ==
    /\ lastOp.op = "retryFailed"
    /\ lastOp.added = 1
    /\ Len(queue) > 0
    /\ queue[Len(queue)].error = NoValue
\* C5: with maxConcurrent = 2 and five distinct items enqueued, after start()
\* and while no transfer has terminated the system is at two items in
\* downloading and three in queue: the scheduler fills every free slot
\* without waiting for an earlier transfer to finish.
C5_FillsEverySlot ==
    (/\ ActiveLoops # {}
     /\ TotalItems(State) = 5
     /\ completed = <<>>
     /\ failed = <<>>)
        => (Len(downloading) = 2 /\ Len(queue) = 3)

\* C6: when stop() is called while items are in downloading, each of them
\* moves to failed with error exactly "cancelled"; none ends in completed or
\* returns to queue.
C6_StoppedTransfersCancelled ==
    [][\A l \in Loops :
        (/\ InTransfer(l)
         /\ loops[l].aborted
         /\ HasId(downloading, loops[l].track.id)
         /\ ~HasId(downloading', loops[l].track.id)) =>
            /\ Len(failed') = Len(failed) + 1
            /\ failed'[Len(failed')].error = "cancelled"
            /\ completed' = completed
            /\ queue' = queue]_vars
\* C11: no per-item transfer failure propagates out of start(): the failure
\* is recorded on the item and the control loop is suspended in the 1 s delay,
\* not ended.  When the delay of the failed transfer ends the loop returns to
\* its while test: if the manager is running (still, or again after a
\* restart) it makes its next pass and dispatches the head of the queue when
\* a slot is free; after stop() it leaves the loop and touches nothing.
FailureRecorded(l, r) ==
    /\ loops'[l].pc = "rateLimit"
    /\ isProcessing' = isProcessing
    /\ ~HasId(downloading', loops[l].track.id)
    /\ failed'[Len(failed')].id = loops[l].track.id
    /\ failed'[Len(failed')].error = r

NextPassMade(l) ==
    /\ loops'[l].pc # "none"
    /\ CanStartMore(State, maxConcurrent) =>
            /\ loops'[l].pc = "resolving"
            /\ loops'[l].track.id = queue[1].id
            /\ downloading'[Len(downloading')].id = queue[1].id

AfterFailureOf(l) == lastOp.op = "failDownload" /\ lastOp.loop = l /\ SleepEnds(l)

C11_FailureNeverEndsLoop ==
    [][\A l \in Loops :
        /\ \A r \in TransferErrors :
            (InTransfer(l) /\ HasId(downloading, loops[l].track.id) /\ TransferFails(l, r))
                => FailureRecorded(l, r)
        /\ (AfterFailureOf(l) /\ isProcessing) => NextPassMade(l)
        /\ (AfterFailureOf(l) /\ ~isProcessing) =>
                (loops'[l] = IdleLoop /\ UNCHANGED <<storeVars, isProcessing, activeDownloads>>)]_vars

\* The statement as claimed: after every failure, an abort included, the loop
\* keeps running and dispatches the next queued item.
C11_LoopRunsOnAfterEveryFailure ==
    [][\A l \in Loops :
        /\ \A r \in TransferErrors :
            (InTransfer(l) /\ HasId(downloading, loops[l].track.id) /\ TransferFails(l, r))
                => FailureRecorded(l, r)
        /\ AfterFailureOf(l) => NextPassMade(l)]_vars

\* A transfer was cancelled by stop(), the manager was started again, and the
\* loop that recorded the failure is in its delay with an item waiting and
\* the slot free.
C11_Witness ==
    /\ lastOp.op = "failDownload"
    /\ lastOp.loop \in Loops
    /\ loops[lastOp.loop].pc = "rateLimit"
    /\ isProcessing
    /\ failed # <<>>
    /\ failed[Len(failed)].error = CancelledMessage
    /\ CanStartMore(State, maxConcurrent)
\* C12: every dispatched item's execution ends with exactly one terminal
\* outcome: the step that ends a transfer applies completeDownload or
\* failDownload to its item, which then leaves downloading for completed or
\* failed (one item, one collection); no item leaves downloading otherwise,
\* and progress is written only by a transfer that has not ended.
EndsTransfer(l) == InTransfer(l) /\ loops'[l].pc = "rateLimit"

Progressed ==
    {i \in 1..Len(downloading) :
        /\ i <= Len(downloading')
        /\ downloading'[i].id = downloading[i].id
        /\ downloading'[i].progress # downloading[i].progress}

C12_ExactlyOneTerminalOutcome ==
    [][/\ \A l \in Loops :
            EndsTransfer(l) =>
                /\ HasId(downloading, loops[l].track.id)
                /\ Len(downloading') = Len(downloading) - 1
                /\ Len(completed') + Len(failed') = Len(completed) + Len(failed) + 1
       /\ Len(downloading') < Len(downloading) => \E l \in Loops : EndsTransfer(l)
       /\ \A i \in Progressed :
            \E l \in Loops : loops[l].pc = "reading" /\ loops'[l].pc = "reading"
                              /\ loops[l].track.id = downloading[i].id]_vars
\* C13: the progress an item holds while it is in downloading never
\* decreases: a step that keeps the items of downloading in place leaves
\* each one's progress as it was or larger.
C13_ProgressNeverDecreases ==
    [][Len(downloading') = Len(downloading) =>
        \A i \in 1..Len(downloading) :
            downloading'[i].id = downloading[i].id =>
                downloading'[i].progress >= downloading[i].progress]_vars
\* C14: every item id is unique: the items an addToQueue call creates carry
\* ids that differ from one another and from the id of every item the store
\* holds, also when Date.now() has not advanced since an earlier insertion.
Created == SubSeq(queue', Len(queue) + 1, Len(queue'))

Held == queue \o downloading \o completed \o failed

C14_IdsUnique ==
    [][lastOp'.op = "addToQueue" =>
        /\ \A i, j \in 1..Len(Created) : Created[i].id = Created[j].id => i = j
        /\ \A i \in 1..Len(Created) : ~HasId(Held, Created[i].id)]_vars
\* C15: the four collections partition the items: no id occurs twice among
\* the items of queue, downloading, completed and failed, and every item's
\* status names the collection that holds it.
StatusIs(s, status) == \A i \in 1..Len(s) : s[i].status = status

C15_CollectionsPartitionItems ==
    /\ \A i, j \in 1..Len(Held) : Held[i].id = Held[j].id => i = j
    /\ StatusIs(queue, "queued")
    /\ StatusIs(downloading, "downloading")
    /\ StatusIs(completed, "completed")
    /\ StatusIs(failed, "failed")
\* C16: dispatch is strictly FIFO: the item a step moves from queue to
\* downloading is the head of queue at that moment, and no step reorders the
\* queued items: an arrival goes behind them, a removal leaves the rest in
\* order.
RECURSIVE IsSubsequence(_, _)
IsSubsequence(a, b) ==
    IF a = <<>> THEN TRUE
    ELSE IF b = <<>> THEN FALSE
    ELSE IF Head(a) = Head(b) THEN IsSubsequence(Tail(a), Tail(b))
    ELSE IsSubsequence(a, Tail(b))

C16_DispatchIsFifo ==
    [][/\ Len(downloading') > Len(downloading) =>
            /\ queue # <<>>
            /\ downloading' = Append(downloading, [queue[1] EXCEPT !.status = "downloading"])
            /\ IsSubsequence(queue', Tail(queue))
       /\ Len(queue') > Len(queue) => SubSeq(queue', 1, Len(queue)) = queue
       /\ Len(queue') <= Len(queue) => IsSubsequence(queue', queue)]_vars

\* A loop has just dispatched the head of a queue that held a second track,
\* which is now the head.
C16_Witness ==
    /\ lastOp.op = "dispatch"
    /\ Len(downloading) = 1
    /\ Len(queue) = 1
    /\ queue[1].tidal_id # downloading[1].tidal_id
    /\ loops[lastOp.loop].track.id = downloading[1].id
\* C17: a retried item re-enters queue at the tail: right after
\* retryFailed(id) of a failed item, queue is what it was, in the same order,
\* followed by that item.
C17_RetriedItemAtTail ==
    [][\A trackId \in ItemIds :
        (RetryFailedOf(trackId) /\ HasId(failed, trackId)) =>
            /\ SubSeq(queue', 1, Len(queue)) = queue
            /\ Len(queue') = Len(queue) + 1
            /\ queue'[Len(queue')].id = trackId
            /\ Described(queue'[Len(queue')]) = Described(Find(failed, trackId))]_vars

\* A failed item was retried while another track was queued: it stands
\* behind that track.
C17_Witness ==
    /\ lastOp.op = "retryFailed"
    /\ lastOp.added = 1
    /\ Len(queue) = 2
    /\ queue[1].tidal_id # queue[2].tidal_id
    /\ queue[1].error = NoValue
    /\ failed = <<>>
\* C18: startDownload, updateProgress, completeDownload, failDownload and
\* retryFailed are no-ops for an id absent from the collection they read
\* (queue, downloading, downloading, downloading, failed): the four
\* collections keep their items, field by field, and no item is created.
C18_AbsentIdIsNoOp ==
    \A trackId \in ItemIds :
        /\ ~HasId(queue, trackId) => startDownload(State, trackId) = State
        /\ ~HasId(downloading, trackId) =>
                /\ \A progress \in Progresses :
                        updateProgress(State, trackId, progress) = State
                /\ completeDownload(State, trackId, <<"f">>) = State
                /\ \A error \in FetchErrors : failDownload(State, trackId, error) = State
        /\ ~HasId(failed, trackId) => retryFailed(State, trackId) = State

\* completeDownload was called with nothing of that id in downloading:
\* nothing reached completed, and the items elsewhere are still there.
C18_Witness ==
    /\ lastOp.op = "completeDownload"
    /\ completed = <<>>
    /\ Len(queue) = 1
    /\ Len(failed) = 1
    /\ downloading = <<>>
\* C19: an item leaves completed only through clearCompleted, and an item
\* leaves failed only through clearFailed or through retryFailed of its own
\* id; every other step of the page, the control loops and the transfers
\* keeps the items of completed and failed, at most appending to them.
IsPrefix(a, b) == Len(a) <= Len(b) /\ SubSeq(b, 1, Len(a)) = a

C19_OnlyClearAndRetryRemove ==
    [][/\ ~IsPrefix(completed, completed') => ClearCompleted
       /\ ~IsPrefix(failed, failed') =>
            \/ ClearFailed
            \/ \E trackId \in ItemIds :
                /\ RetryFailedOf(trackId)
                /\ failed' = WithoutId(failed, trackId)]_vars

\* Of two failed items one was retried: the other is still in failed.
C19_Witness ==
    /\ lastOp.op = "retryFailed"
    /\ lastOp.added = 1
    /\ Len(failed) = 1
    /\ Len(queue) = 1
    /\ failed[1].id # queue[1].id
\* C20: removeFromQueue(id) removes only a not-yet-started item: an item of
\* that id in queue is taken out, the other queued items stay in order, and
\* since a dispatch only ever takes the head of queue the removed item is
\* not dispatched afterwards; downloading, completed and failed, the
\* manager and every transfer in flight are left as they are, so an id that
\* is not in queue changes nothing.
C20_RemoveOnlyUnstarted ==
    [][/\ \A trackId \in ItemIds :
            RemoveFromQueueOf(trackId) =>
                /\ ~HasId(queue', trackId)
                /\ queue' = WithoutId(queue, trackId)
                /\ ~HasId(queue, trackId) => queue' = queue
                /\ UNCHANGED <<downloading, completed, failed, managerVars>>
       /\ Len(downloading') > Len(downloading) =>
            /\ queue # <<>>
            /\ downloading'[Len(downloading')].id = queue[1].id]_vars

\* A queued item was removed while the transfer of another one is in flight:
\* that transfer is still in downloading with its loop at work.
C20_Witness ==
    /\ lastOp.op = "removeFromQueue"
    /\ lastOp.skipped = 1
    /\ queue = <<>>
    /\ Len(downloading) = 1
    /\ \E l \in Loops : InTransfer(l) /\ loops[l].track.id = downloading[1].id
\* C21: a descriptor without catalog id is skipped at enqueue: addToQueue
\* creates no item for it, and the well-formed descriptors of the batch whose
\* catalog id is not taken are appended all the same.
WellFormed(track) == track.tidal_id # Undefined

C21_MalformedSkipped ==
    [][lastOp'.op = "addToQueue" =>
        \A tracks \in LooseBatches, t \in 0..MaxClock :
            AddToQueueOf(tracks, t) =>
                /\ \A i \in 1..Len(Created) : WellFormed(Created[i])
                /\ \A k \in 1..Len(tracks) :
                    (WellFormed(tracks[k]) /\ tracks[k].tidal_id \notin TakenCatalogIds)
                        => \E i \in 1..Len(Created) : Described(Created[i]) = tracks[k]]_vars

\* C22: getStats() returns counts equal to the lengths of queue, downloading,
\* completed and failed, and total equal to their sum, and reads only.
C22_StatsAreLengths ==
    [][lastOp'.op = "getStats" =>
        /\ lastOp'.stats.queued = Len(queue)
        /\ lastOp'.stats.downloading = Len(downloading)
        /\ lastOp'.stats.completed = Len(completed)
        /\ lastOp'.stats.failed = Len(failed)
        /\ lastOp'.stats.total = Len(Held)
        /\ UNCHANGED storeVars]_vars

\* getStats() was read with a completed and a failed item in the store.
C22_Witness ==
    /\ lastOp.op = "getStats"
    /\ lastOp.stats.total = 2
    /\ lastOp.stats.completed = 1
    /\ lastOp.stats.failed = 1
    /\ Len(completed) = 1
    /\ Len(failed) = 1
\* C30: addToQueue appends the descriptors it keeps to the tail of queue in
\* their input order, each as an item with status queued and progress 0; the
\* items already in queue keep their order and contents, and downloading,
\* completed and failed are unchanged.
C30_SurvivorsAppendedInOrder ==
    [][lastOp'.op = "addToQueue" =>
        \A tracks \in Batches :
            (/\ Len(tracks) = lastOp'.added + lastOp'.skipped
             /\ AddToQueueOf(tracks, now')) =>
                /\ SubSeq(queue', 1, Len(queue)) = queue
                /\ Len(Created) = lastOp'.added
                /\ IsSubsequence(MapSeq(Described, Created), tracks)
                /\ \A k \in 1..Len(tracks) :
                    (/\ tracks[k].tidal_id \notin TakenCatalogIds
                     /\ \A j \in 1..(k - 1) : tracks[j].tidal_id # tracks[k].tidal_id)
                        => \E i \in 1..Len(Created) : Described(Created[i]) = tracks[k]
                /\ \A i \in 1..Len(Created) :
                    /\ Created[i].status = "queued"
                    /\ Created[i].progress = 0
                /\ downloading' = downloading
                /\ completed' = completed
                /\ failed' = failed]_vars

\* A batch of two tracks, one of them a duplicate, went into a store with one
\* queued track: the survivor is behind that track.
C30_Witness ==
    /\ lastOp.op = "addToQueue"
    /\ lastOp.added = 1
    /\ lastOp.skipped = 1
    /\ Len(queue) = 2
    /\ queue[1].addedAt < queue[2].addedAt
\* C29: after a transfer ends, completed or failed, no item is dispatched
\* until the delay that follows it is over, also when stop() and start() come
\* in between: a step that moves an item into downloading is taken only when
\* every loop that was in its post-transfer delay has just come out of it.
InDelay(l) == loops[l].pc = "rateLimit"

C29_NoDispatchDuringDelay ==
    [][Len(downloading') > Len(downloading) =>
        \A l \in Loops : InDelay(l) => loops'[l].pc # "rateLimit"]_vars
\* C28: from stop() until the next start() no item moves from queue to
\* downloading, and unless start() is called again every control loop that
\* an earlier start() began eventually leaves its while loop, so that the
\* promise of that start() resolves.
C28_StoppedLoopDispatchesNothingAndExits ==
    /\ [][~isProcessing' => Len(downloading') <= Len(downloading)]_vars
    /\ (~isProcessing ~> (isProcessing \/ ActiveLoops = {}))

\* The manager was stopped with a transfer in flight and a track waiting; the
\* loop has left its while loop and the track is still queued.
C28_Witness ==
    /\ lastOp.op = "loopExit"
    /\ ~isProcessing
    /\ ActiveLoops = {}
    /\ Len(queue) = 1
    /\ Len(failed) = 1
\* C27: with the manager started and never stopped, maxConcurrent >= 1 and
\* every transfer terminating, every queued item that is not removed
\* eventually reaches completed or failed: while it waits it stays in the
\* store, and in the end it is in one of the two collections.
Holds(s, d) == \E i \in 1..Len(s) : Described(s[i]) = d

C27_NoQueuedItemStarved ==
    /\ [][\A d \in Descriptors :
            Holds(queue, d) => Holds(queue' \o downloading' \o completed' \o failed', d)]_vars
    /\ \A d \in Descriptors :
            (isProcessing /\ Holds(queue, d)) ~> Holds(completed \o failed, d)
\* C26: in the server-side strategy a successful submission is reported as a
\* submission only: the step that ends the submission of a track does not
\* put that track into completed.
C26_SubmissionDoesNotComplete ==
    [][\A l \in Loops :
        (InSubmission(l) /\ loops'[l].pc = "rateLimit")
            => ~HasId(completed', loops[l].track.id)]_vars
\* C23: setServerQueueState(snapshot) replaces all four collections with the
\* snapshot's, whatever the store held: after any sequence of such calls,
\* mixed with local mutators, the store equals the last snapshot applied.
C23_StoreEqualsLastSnapshot ==
    [][lastOp'.op \in {"setServerQueueState", "syncServerQueueToStore"} =>
        \A snapshot \in Snapshots :
            (SetServerQueueStateOf(snapshot) \/ SyncServerQueueToStoreOf(snapshot))
                => State' = snapshot]_vars

\* A store of two items was replaced by a snapshot of one completed item.
C23_Witness ==
    /\ lastOp.op = "setServerQueueState"
    /\ lastOp.skipped = 2
    /\ lastOp.added = 1
    /\ Len(completed) = 1
    /\ queue = <<>>

\* C24: a failed poll of the server queue leaves the four collections as they
\* were and moves no item to failed; the next successful poll replaces them
\* with its snapshot.
C24_FailedPollLeavesState ==
    [][/\ lastOp'.op = "fetchFailed" =>
            UNCHANGED <<queue, downloading, completed, failed>>
       /\ (lastOp.op = "fetchFailed" /\ lastOp'.op = "syncServerQueueToStore") =>
            (State' \in Snapshots /\ TotalItems(State') = lastOp'.added)]_vars

\* A poll failed while the store showed a track downloading: it still does.
C24_Witness ==
    /\ lastOp.op = "fetchFailed"
    /\ Len(downloading) = 1
    /\ failed = <<>>
\* C25: the two execution modes exclude each other: in no reachable state is
\* a client-side transfer in flight while a server-side submission or the
\* server queue sync is active, and every dispatched item is run by exactly
\* one strategy, the one the mode selects.
ClientWriter == \E l \in Loops : InTransfer(l)
ServerWriter == syncing \/ \E l \in Loops : InSubmission(l)

Last(s) == s[Len(s)]
Grew(s, t) == Len(t) > Len(s)
Same(a, b) == a.id = b.id /\ Described(a) = Described(b)
CameFrom(s, t, from, status) ==
    /\ Len(t) = Len(s) + 1
    /\ SubSeq(t, 1, Len(s)) = s
    /\ Last(t).status = status
    /\ \E j \in 1..Len(from) : Same(from[j], Last(t))

C32_StatusFollowsLifecycle ==
    [][/\ Grew(downloading, downloading') =>
            /\ CameFrom(downloading, downloading', queue, "downloading")
            /\ completed' = completed /\ failed' = failed
       /\ Grew(completed, completed') =>
            /\ CameFrom(completed, completed', downloading, "completed")
            /\ queue' = queue /\ failed' = failed
       /\ Grew(failed, failed') =>
            /\ CameFrom(failed, failed', downloading, "failed")
            /\ queue' = queue /\ completed' = completed
       /\ Grew(queue, queue') =>
            /\ downloading' = downloading /\ completed' = completed
            /\ \/ /\ lastOp'.op = "addToQueue"
                  /\ failed' = failed
                  /\ \A i \in 1..Len(Created) : Created[i].status = "queued"
               \/ /\ lastOp'.op = "retryFailed"
                  /\ CameFrom(queue, queue', failed, "queued")
                  /\ Len(failed') < Len(failed)
       /\ completed' # completed => (IsPrefix(completed, completed') \/ completed' = <<>>)
       /\ Len(downloading') < Len(downloading) =>
            (Grew(completed, completed') \/ Grew(failed, failed'))
       /\ Len(queue') < Len(queue) =>
            (Grew(downloading, downloading') \/ lastOp'.op = "removeFromQueue")]_vars

\* One track went queued -> downloading -> completed, another queued ->
\* downloading -> failed -> queued.
C32_Witness ==
    /\ lastOp.op = "retryFailed"
    /\ lastOp.added = 1
    /\ Len(queue) = 1
    /\ queue[1].status = "queued"
    /\ Len(completed) = 1
    /\ completed[1].status = "completed"
\* C33: the progress stored on any item is an integer in 0..100, for every
\* sequence of chunk sizes and every reported total size, also when the body
\* is longer than the reported content-length.
C33_ProgressWithinRange ==
    \A i \in 1..Len(Held) : Held[i].progress \in 0..100
\* C34: updateProgress(id, p) for an id in downloading sets the progress of
\* that one item to p and changes nothing else: the item keeps its place in
\* downloading, every other item is as it was, and queue, completed and
\* failed are unchanged.
C34_UpdateProgressTouchesOneItem ==
    [][lastOp'.op = "updateProgress" =>
        \A trackId \in ItemIds, progress \in Progresses :
            (HasId(downloading, trackId) /\ UpdateProgressOf(trackId, progress)) =>
                /\ \E i \in 1..Len(downloading) :
                    /\ downloading[i].id = trackId
                    /\ downloading' = [downloading EXCEPT ![i].progress = progress]
                /\ queue' = queue
                /\ completed' = completed
                /\ failed' = failed]_vars
\* C35: clearCompleted empties completed and nothing else, clearFailed
\* empties failed and nothing else: the other three collections, the
\* setting and the transfers in flight are as before, and a second call
\* right after the first changes nothing.
C35_ClearsOnlyItsCollection ==
    [][/\ lastOp'.op = "clearCompleted" =>
            /\ completed' = <<>>
            /\ UNCHANGED <<queue, downloading, failed, maxConcurrent, managerVars>>
            /\ clearCompleted(State') = State'
       /\ lastOp'.op = "clearFailed" =>
            /\ failed' = <<>>
            /\ UNCHANGED <<queue, downloading, completed, maxConcurrent, managerVars>>
            /\ clearFailed(State') = State']_vars

\* clearCompleted removed a completed track while the transfer of another
\* track was in flight.
C35_Witness ==
    /\ lastOp.op = "clearCompleted"
    /\ lastOp.skipped = 1
    /\ completed = <<>>
    /\ Len(downloading) = 1
    /\ \E l \in Loops : InTransfer(l)
\* C36: sanitizeFilename replaces every one of the characters < > : " / \ | ?
\* * by _ and trims the whitespace around the result: the result holds none
\* of those characters and no whitespace at either end, every other
\* character is kept in order, and sanitizing the result again returns it
\* unchanged.
Replaced(c) == IF c \in InvalidChars THEN "_" ELSE c

C36_SanitizeFilename ==
    lastOp.op = "sanitizeFilename" =>
        /\ \A i \in 1..Len(sanitized) : sanitized[i] \notin InvalidChars
        /\ sanitized # <<>> =>
            (sanitized[1] \notin Whitespace /\ sanitized[Len(sanitized)] \notin Whitespace)
        /\ \E k \in 0..Len(unsanitized) :
            /\ k + Len(sanitized) <= Len(unsanitized)
            /\ \A i \in 1..k : unsanitized[i] \in Whitespace
            /\ \A i \in 1..Len(sanitized) : sanitized[i] = Replaced(unsanitized[k + i])
            /\ \A i \in (k + Len(sanitized) + 1)..Len(unsanitized) :
                unsanitized[i] \in Whitespace
        /\ sanitizeFilename(sanitized) = sanitized

\* " :a" has become "_a": the colon is replaced and the leading blank
\* trimmed.
C36_Witness ==
    /\ lastOp.op = "sanitizeFilename"
    /\ unsanitized = <<" ", ":", "a">>
    /\ sanitized = <<"_", "a">>
\* C37: at most one control loop of the manager is active at any time, for
\* every sequence of start() and stop() calls, also when start() follows
\* stop() while the earlier loop is still awaiting a transfer or a sleep.
C37_AtMostOneLoop ==
    Cardinality(ActiveLoops) <= 1
\* C38: no item is silently lost: startDownload, completeDownload,
\* failDownload and retryFailed keep the number of items over the four
\* collections, which changes only through addToQueue, removeFromQueue,
\* clearCompleted and clearFailed, also when two items carry the same id.
C38_MovesPreserveTotal ==
    [][TotalItems(State') # TotalItems(State) =>
        lastOp'.op \in {"addToQueue", "removeFromQueue",
                        "clearCompleted", "clearFailed"}]_vars
FieldsConsistent ==
    /\ \A i \in 1..Len(queue) :
        queue[i].progress = 0 /\ queue[i].error = NoValue
    /\ \A i \in 1..Len(completed) :
        completed[i].progress = 100 /\ completed[i].filename # NoFilename
    /\ \A i \in 1..Len(failed) : failed[i].error # NoValue

C40_FieldsMatchCollection ==
    /\ []FieldsConsistent
    /\ [][lastOp'.op = "stop" => (queue' = queue /\ completed' = completed)]_vars

\* stop() was called with one track in queue and one in completed.
C40_Witness ==
    /\ lastOp.op = "stop"
    /\ Len(queue) = 1
    /\ Len(completed) = 1
====
